---------------------------- MODULE Spec2Model ----------------------------
(***************************************************************************)
(* Model of src/src/mainloop.cpp: Mainloop::run (startup, teardown),       *)
(* Mainloop::loop (poll dispatch, signal driven shutdown) and              *)
(* Mainloop::camera_callback (timestamp rebasing, gyro liveness check,     *)
(* flow quality gate, telemetry message assembly).                         *)
(*                                                                         *)
(* Microsecond values are kept as pairs <<hi, lo>> of base-2^16 digits     *)
(* (value = hi * 2^16 + lo) so that 32-bit wrap-around of uint32_t is      *)
(* computed exactly: a uint32_t is a pair with hi < 2^16.                  *)
(***************************************************************************)
EXTENDS Integers, Sequences, FiniteSets, TLC

VARIABLES
    \* ---- Mainloop session state (camera_callback) ----
    _camera_initial_timestamp,  \* uint32_t, 0 until the first frame
    _camera_prev_timestamp,     \* uint32_t, rebased time of the last frame
    _gyro_last_timespec,        \* struct timespec of the last consumed gyro sample
    frames,                     \* inputs of every camera_callback invocation so far
    calcFlowCalls,              \* img_time_us handed to _optical_flow->calcFlow, per call
    sent,                       \* messages handed to _mavlink->optical_flow_rad_msg_write
    \* ---- run() and loop() ----
    pc,                         \* position of the process in run() / loop()
    calls,                      \* lifecycle calls run() has made on its collaborators
    sigactions,                 \* disposition of SIGTERM, SIGINT, SIGPIPE
    _should_run,                \* static bool _should_run
    signalled,                  \* exit_signal_handler has run
    desc,                       \* struct pollfd desc[len]
    ret,                        \* int ret of loop()
    i,                          \* unsigned i of the dispatch loop
    pending,                    \* conditions the kernel holds pending on each source's fd
    dispatched                  \* handlers invoked since the last return of poll()

callbackVars == <<_camera_initial_timestamp, _camera_prev_timestamp,
                  _gyro_last_timespec, frames, calcFlowCalls, sent>>

loopVars == <<pc, calls, sigactions, _should_run, signalled, desc, ret, i,
              pending, dispatched>>

vars == <<callbackVars, loopVars>>

(***************************************************************************)
(* Bounds and input domains.                                               *)
(***************************************************************************)
MaxFrames == 3

USEC_PER_SEC == 1000000

Limb == 2 ^ 16

\* struct timeval values the camera source may stamp a frame with.
CameraTimestamps ==
    { [tv_sec |-> 0,    tv_usec |-> 0],
      [tv_sec |-> 1,    tv_usec |-> 0],
      [tv_sec |-> 1,    tv_usec |-> 33000],
      [tv_sec |-> 1,    tv_usec |-> 66000],
      [tv_sec |-> 4296, tv_usec |-> 0] }

\* Results of _optical_flow->calcFlow: return value and out-parameters.
FlowResults ==
    { [quality |-> -1, dt_us |-> 0,     flow_x_ang |-> 0, flow_y_ang |-> 0],
      [quality |-> 0,  dt_us |-> 33000, flow_x_ang |-> 7, flow_y_ang |-> -3] }

\* Results of _bmi->gyro_integrated_get: integrated data and its timestamp.
GyroSamples ==
    { [data |-> <<1, 2, 3>>, timespec |-> [tv_sec |-> 1, tv_nsec |-> 0]],
      [data |-> <<4, 5, 6>>, timespec |-> [tv_sec |-> 1, tv_nsec |-> 5]],
      [data |-> <<7, 8, 9>>, timespec |-> [tv_sec |-> 2, tv_nsec |-> 0]] }

(***************************************************************************)
(* Arithmetic of camera_callback.                                          *)
(***************************************************************************)
\* timestamp->tv_usec + timestamp->tv_sec * USEC_PER_SEC, in full width.
timeval_usec(tv) ==
    LET lo == tv.tv_sec * (USEC_PER_SEC % Limb) + tv.tv_usec
    IN  <<tv.tv_sec * (USEC_PER_SEC \div Limb) + lo \div Limb, lo % Limb>>

\* Conversion of a full-width value to uint32_t (modulo 2^32).
to_uint32(w) == <<w[1] % Limb, w[2]>>

\* a - b on uint32_t operands (modulo 2^32).
uint32_sub(a, b) ==
    LET lo == a[2] - b[2]
    IN  <<(a[1] - b[1] + lo \div Limb) % Limb, lo % Limb>>

\* a - b in full width, for a >= b.
wide_sub(a, b) ==
    LET lo == a[2] - b[2]
    IN  <<a[1] - b[1] + lo \div Limb, lo % Limb>>

wide_leq(a, b) == a[1] < b[1] \/ (a[1] = b[1] /\ a[2] <= b[2])

Zero == <<0, 0>>

\* A small value v < 2^16 * 2^15 as a digit pair.
usec(v) == <<v \div Limb, v % Limb>>


(***************************************************************************)
(* Mainloop::camera_callback.                                              *)
(***************************************************************************)
\* Lines 136-144: the first frame observed defines time zero.  A zero
\* _camera_initial_timestamp means "not set yet".
rebase(initial, img_time_us) ==
    IF initial # Zero
    THEN [initial |-> initial, img_time_us |-> uint32_sub(img_time_us, initial)]
    ELSE [initial |-> img_time_us, img_time_us |-> Zero]

\* Lines 160-161, with tv_nsec compared against tv_sec.
gyro_unchanged_typo(last, now) ==
    last.tv_sec = now.tv_sec /\ last.tv_nsec = now.tv_sec

\* Lines 160-161: liveness check of the BMI160.
gyro_unchanged(last, now) ==
    last.tv_sec = now.tv_sec /\ last.tv_nsec = now.tv_nsec

\* Line 172, off by one.
flow_not_ready_off_by_one(flow_quality) == flow_quality < -1

\* Line 172: flow output rate gate.
flow_not_ready(flow_quality) == flow_quality < 0

\* Lines 176-188, stamping the message with the rebased img_time_us.
optical_flow_rad_msg_rebased(timestamp, img_time_us, dt_us, flow_x_ang, flow_y_ang, gyro_data, flow_quality) ==
    [ time_usec              |-> img_time_us,
      integration_time_us    |-> dt_us,
      integrated_x           |-> flow_x_ang,
      integrated_y           |-> flow_y_ang,
      integrated_xgyro       |-> gyro_data[1],
      integrated_ygyro       |-> gyro_data[2],
      integrated_zgyro       |-> gyro_data[3],
      time_delta_distance_us |-> 0,
      distance               |-> -1,
      temperature            |-> 0,
      sensor_id              |-> 0,
      quality                |-> flow_quality ]

\* Lines 176-188, with the x and y gyro axes crossed.
optical_flow_rad_msg_crossed(timestamp, img_time_us, dt_us, flow_x_ang, flow_y_ang, gyro_data, flow_quality) ==
    [ time_usec              |-> timeval_usec(timestamp),
      integration_time_us    |-> dt_us,
      integrated_x           |-> flow_x_ang,
      integrated_y           |-> flow_y_ang,
      integrated_xgyro       |-> gyro_data[2],
      integrated_ygyro       |-> gyro_data[1],
      integrated_zgyro       |-> gyro_data[3],
      time_delta_distance_us |-> 0,
      distance               |-> -1,
      temperature            |-> 0,
      sensor_id              |-> 0,
      quality                |-> flow_quality ]

\* Lines 176-188: the mavlink_optical_flow_rad_t built for an emitted frame.
\* time_usec is recomputed from the frame's struct timeval, not taken from
\* img_time_us.
optical_flow_rad_msg(timestamp, img_time_us, dt_us, flow_x_ang, flow_y_ang, gyro_data, flow_quality) ==
    [ time_usec              |-> timeval_usec(timestamp),
      integration_time_us    |-> dt_us,
      integrated_x           |-> flow_x_ang,
      integrated_y           |-> flow_y_ang,
      integrated_xgyro       |-> gyro_data[1],
      integrated_ygyro       |-> gyro_data[2],
      integrated_zgyro       |-> gyro_data[3],
      time_delta_distance_us |-> 0,
      distance               |-> -1,
      temperature            |-> 0,
      sensor_id              |-> 0,
      quality                |-> flow_quality ]

\* Lines 113-191, with the bookkeeping of line 153 moved behind the two
\* early returns.
camera_callback_prev_after_returns(timestamp, flow, gyro) ==
    LET rb          == rebase(_camera_initial_timestamp,
                              to_uint32(timeval_usec(timestamp)))
        img_time_us == rb.img_time_us
        emits       == /\ ~gyro_unchanged(_gyro_last_timespec, gyro.timespec)
                       /\ ~flow_not_ready(flow.quality)
    IN  /\ frames' = Append(frames, [timestamp |-> timestamp, flow |-> flow, gyro |-> gyro])
        /\ _camera_initial_timestamp' = rb.initial
        /\ calcFlowCalls' = Append(calcFlowCalls, img_time_us)
        /\ _camera_prev_timestamp' = IF emits THEN img_time_us ELSE _camera_prev_timestamp
        /\ IF gyro_unchanged(_gyro_last_timespec, gyro.timespec)
           THEN UNCHANGED <<_gyro_last_timespec, sent>>
           ELSE /\ _gyro_last_timespec' = gyro.timespec
                /\ sent' = IF flow_not_ready(flow.quality)
                           THEN sent
                           ELSE Append(sent,
                                       optical_flow_rad_msg(timestamp, img_time_us,
                                           flow.dt_us, flow.flow_x_ang, flow.flow_y_ang,
                                           gyro.data, flow.quality))

\* Lines 113-191, with the assignment of line 165 moved behind the quality
\* gate of lines 172-174.
camera_callback_gyro_after_gate(timestamp, flow, gyro) ==
    LET rb          == rebase(_camera_initial_timestamp,
                              to_uint32(timeval_usec(timestamp)))
        img_time_us == rb.img_time_us
        emits       == /\ ~gyro_unchanged(_gyro_last_timespec, gyro.timespec)
                       /\ ~flow_not_ready(flow.quality)
    IN  /\ frames' = Append(frames, [timestamp |-> timestamp, flow |-> flow, gyro |-> gyro])
        /\ _camera_initial_timestamp' = rb.initial
        /\ calcFlowCalls' = Append(calcFlowCalls, img_time_us)
        /\ _camera_prev_timestamp' = img_time_us
        /\ _gyro_last_timespec' = IF emits THEN gyro.timespec ELSE _gyro_last_timespec
        /\ sent' = IF emits
                   THEN Append(sent,
                               optical_flow_rad_msg(timestamp, img_time_us,
                                   flow.dt_us, flow.flow_x_ang, flow.flow_y_ang,
                                   gyro.data, flow.quality))
                   ELSE sent

\* Lines 113-191.  timestamp is the frame's capture time, flow what calcFlow
\* returns for it and gyro what gyro_integrated_get returns.
camera_callback(timestamp, flow, gyro) ==
    LET rb          == rebase(_camera_initial_timestamp,
                              to_uint32(timeval_usec(timestamp)))
        img_time_us == rb.img_time_us
    IN  /\ frames' = Append(frames, [timestamp |-> timestamp, flow |-> flow, gyro |-> gyro])
        /\ _camera_initial_timestamp' = rb.initial
        /\ calcFlowCalls' = Append(calcFlowCalls, img_time_us)
        /\ _camera_prev_timestamp' = img_time_us
        /\ IF gyro_unchanged(_gyro_last_timespec, gyro.timespec)
           THEN UNCHANGED <<_gyro_last_timespec, sent>>
           ELSE /\ _gyro_last_timespec' = gyro.timespec
                /\ sent' = IF flow_not_ready(flow.quality)
                           THEN sent
                           ELSE Append(sent,
                                       optical_flow_rad_msg(timestamp, img_time_us,
                                           flow.dt_us, flow.flow_x_ang, flow.flow_y_ang,
                                           gyro.data, flow.quality))

\* Session state of a freshly constructed Mainloop.
InitCallback ==
    /\ _camera_initial_timestamp = Zero
    /\ _camera_prev_timestamp = Zero
    /\ _gyro_last_timespec = [tv_sec |-> 0, tv_nsec |-> 0]
    /\ frames = <<>>
    /\ calcFlowCalls = <<>>
    /\ sent = <<>>

\* The camera source completes a frame and invokes the registered callback.
CameraFrame ==
    /\ Len(frames) < MaxFrames
    /\ \E timestamp \in CameraTimestamps, flow \in FlowResults, gyro \in GyroSamples :
           camera_callback(timestamp, flow, gyro)
    /\ UNCHANGED loopVars

(***************************************************************************)
(* Mainloop::run: startup.                                                 *)
(***************************************************************************)
Call(op, on, ok) == [op |-> op, on |-> on, ok |-> ok]

\* The goto of each startup failure, with the BMI160 init failure jumping
\* past the release of _bmi.
fail_target_skips_bmi(step) ==
    CASE step = "camera_init"      -> "camera_init_error"
      [] step = "new_mavlink"      -> "mavlink_memory_error"
      [] step = "mavlink_init"     -> "mavlink_init_error"
      [] step = "new_optical_flow" -> "optical_memory_error"
      [] step = "new_bmi"          -> "bmi_memory"
      [] step = "bmi_init"         -> "bmi_memory"
      [] step = "bmi_start"        -> "bmi_error"

\* Lines 208-248: the error label each startup failure jumps to.
fail_target(step) ==
    CASE step = "camera_init"      -> "camera_init_error"
      [] step = "new_mavlink"      -> "mavlink_memory_error"
      [] step = "mavlink_init"     -> "mavlink_init_error"
      [] step = "new_optical_flow" -> "optical_memory_error"
      [] step = "new_bmi"          -> "bmi_memory"
      [] step = "bmi_init"         -> "bmi_error"
      [] step = "bmi_start"        -> "bmi_error"

\* What every step of run() leaves alone.
RunStepKeeps ==
    UNCHANGED <<callbackVars, sigactions, _should_run, signalled, desc, ret, i,
                pending, dispatched>>

\* Lines 201-205.  The result of each new is tested as the code tests it:
\* ok = FALSE is the branch taken for a null pointer.
NewCamera ==
    /\ pc = "new_camera"
    /\ \E ok \in BOOLEAN :
           /\ calls' = Append(calls, Call("new", "_camera", ok))
           /\ pc' = IF ok THEN "camera_init" ELSE "return_fail"
    /\ RunStepKeeps

\* Lines 206-211.
CameraInit ==
    /\ pc = "camera_init"
    /\ \E ok \in BOOLEAN :
           /\ calls' = Append(calls, Call("init", "_camera", ok))
           /\ pc' = IF ok THEN "new_mavlink" ELSE fail_target("camera_init")
    /\ RunStepKeeps

\* Lines 213-217.
NewMavlink ==
    /\ pc = "new_mavlink"
    /\ \E ok \in BOOLEAN :
           /\ calls' = Append(calls, Call("new", "_mavlink", ok))
           /\ pc' = IF ok THEN "mavlink_init" ELSE fail_target("new_mavlink")
    /\ RunStepKeeps

\* Lines 218-222.
MavlinkInit ==
    /\ pc = "mavlink_init"
    /\ \E ok \in BOOLEAN :
           /\ calls' = Append(calls, Call("init", "_mavlink", ok))
           /\ pc' = IF ok THEN "new_optical_flow" ELSE fail_target("mavlink_init")
    /\ RunStepKeeps

\* Lines 225-231.
NewOpticalFlow ==
    /\ pc = "new_optical_flow"
    /\ \E ok \in BOOLEAN :
           /\ calls' = IF ok
                       THEN calls \o <<Call("new", "_optical_flow", TRUE),
                                       Call("callback_set", "_camera", TRUE)>>
                       ELSE Append(calls, Call("new", "_optical_flow", FALSE))
           /\ pc' = IF ok THEN "new_bmi" ELSE fail_target("new_optical_flow")
    /\ RunStepKeeps

\* Lines 233-237.
NewBmi ==
    /\ pc = "new_bmi"
    /\ \E ok \in BOOLEAN :
           /\ calls' = Append(calls, Call("new", "_bmi", ok))
           /\ pc' = IF ok THEN "bmi_init" ELSE fail_target("new_bmi")
    /\ RunStepKeeps

\* Lines 238-241.
BmiInit ==
    /\ pc = "bmi_init"
    /\ \E ok \in BOOLEAN :
           /\ calls' = Append(calls, Call("init", "_bmi", ok))
           /\ pc' = IF ok THEN "bmi_start" ELSE fail_target("bmi_init")
    /\ RunStepKeeps

\* Lines 242-248, then line 255: loop() is entered.
BmiStart ==
    /\ pc = "bmi_start"
    /\ \E calibrate_bmi \in BOOLEAN, ok \in BOOLEAN :
           /\ calls' = calls
                       \o (IF calibrate_bmi THEN <<Call("calibrate", "_bmi", TRUE)>> ELSE <<>>)
                       \o <<Call("start", "_bmi", ok)>>
           /\ pc' = IF ok THEN "signal_handlers_setup" ELSE fail_target("bmi_start")
    /\ RunStepKeeps

(***************************************************************************)
(* Mainloop::run: error labels (each falls through to the next).           *)
(***************************************************************************)
\* Lines 270-271.
BmiError ==
    /\ pc = "bmi_error"
    /\ calls' = Append(calls, Call("delete", "_bmi", TRUE))
    /\ pc' = "bmi_memory"
    /\ RunStepKeeps

\* Lines 272-273.
BmiMemory ==
    /\ pc = "bmi_memory"
    /\ calls' = Append(calls, Call("delete", "_optical_flow", TRUE))
    /\ pc' = "mavlink_init_error"
    /\ RunStepKeeps

\* Lines 274-276: optical_memory_error and mavlink_init_error are one place.
MavlinkInitError ==
    /\ pc \in {"optical_memory_error", "mavlink_init_error"}
    /\ calls' = Append(calls, Call("delete", "_mavlink", TRUE))
    /\ pc' = "mavlink_memory_error"
    /\ RunStepKeeps

\* Lines 277-278.
MavlinkMemoryError ==
    /\ pc = "mavlink_memory_error"
    /\ calls' = Append(calls, Call("shutdown", "_camera", TRUE))
    /\ pc' = "camera_init_error"
    /\ RunStepKeeps

\* Lines 279-281.
CameraInitError ==
    /\ pc = "camera_init_error"
    /\ calls' = Append(calls, Call("delete", "_camera", TRUE))
    /\ pc' = "return_fail"
    /\ RunStepKeeps

\* Lines 261-268, with _mavlink released before _optical_flow.
Teardown_transport_first ==
    /\ pc = "teardown"
    /\ calls' = calls \o <<Call("stop", "_bmi", TRUE),
                           Call("delete", "_bmi", TRUE),
                           Call("delete", "_mavlink", TRUE),
                           Call("delete", "_optical_flow", TRUE),
                           Call("shutdown", "_camera", TRUE),
                           Call("delete", "_camera", TRUE)>>
    /\ pc' = "return_ok"
    /\ RunStepKeeps

\* Lines 261-268: teardown after loop() returned.
Teardown ==
    /\ pc = "teardown"
    /\ calls' = calls \o <<Call("stop", "_bmi", TRUE),
                           Call("delete", "_bmi", TRUE),
                           Call("delete", "_optical_flow", TRUE),
                           Call("delete", "_mavlink", TRUE),
                           Call("shutdown", "_camera", TRUE),
                           Call("delete", "_camera", TRUE)>>
    /\ pc' = "return_ok"
    /\ RunStepKeeps

(***************************************************************************)
(* Mainloop::loop.                                                         *)
(***************************************************************************)
Signals == {"SIGTERM", "SIGINT", "SIGPIPE"}

\* Conditions the kernel may hold pending on a descriptor.
Conditions == {"POLLIN", "POLLOUT"}

\* Line 72, with the inertial sensor listed before the camera.
pollables_bmi_first == <<"_bmi", "_camera", "_mavlink">>

\* Line 72.
pollables == <<"_camera", "_bmi", "_mavlink">>

\* Line 73.
len == Len(pollables)

\* Pollable::_fd of each source: three distinct open descriptors.
_fd == ("_camera" :> 3) @@ ("_bmi" :> 4) @@ ("_mavlink" :> 5)

\* Lines 92-93, 100: the first j with desc[i].fd == pollables[j]->_fd.
owner(fd) ==
    LET js == {j \in 0..(len - 1) : _fd[pollables[j + 1]] = fd}
    IN  CHOOSE j \in js : \A k \in js : j <= k

LoopPcs == {"signal_handlers_setup", "set_should_run", "desc_setup", "while",
            "poll", "in_poll", "poll_ret", "for"}

Exited == {"return_ok", "return_fail", "killed"}

\* Lines 57-68, with SIGPIPE given exit_signal_handler like the other two.
signal_handlers_setup_pipe_exits ==
    /\ pc = "signal_handlers_setup"
    /\ sigactions' = [s \in Signals |-> "exit_signal_handler"]
    /\ pc' = "set_should_run"
    /\ UNCHANGED <<callbackVars, calls, _should_run, signalled, desc, ret, i,
                   pending, dispatched>>

\* Lines 57-68, called at line 76.
signal_handlers_setup ==
    /\ pc = "signal_handlers_setup"
    /\ sigactions' = [s \in Signals |->
                          IF s = "SIGPIPE" THEN "SIG_IGN" ELSE "exit_signal_handler"]
    /\ pc' = "set_should_run"
    /\ UNCHANGED <<callbackVars, calls, _should_run, signalled, desc, ret, i,
                   pending, dispatched>>

\* Line 77.
SetShouldRun ==
    /\ pc = "set_should_run"
    /\ _should_run' = TRUE
    /\ pc' = "desc_setup"
    /\ UNCHANGED <<callbackVars, calls, sigactions, signalled, desc, ret, i,
                   pending, dispatched>>

\* Lines 79-83, registering every descriptor for write-readiness as well.
DescSetup_write_interest ==
    /\ pc = "desc_setup"
    /\ desc' = [k \in 0..(len - 1) |->
                    [fd |-> _fd[pollables[k + 1]], events |-> {"POLLIN", "POLLOUT"},
                     revents |-> {}]]
    /\ pc' = "while"
    /\ UNCHANGED <<callbackVars, calls, sigactions, _should_run, signalled, ret, i,
                   pending, dispatched>>

\* Lines 79-83.
DescSetup ==
    /\ pc = "desc_setup"
    /\ desc' = [k \in 0..(len - 1) |->
                    [fd |-> _fd[pollables[k + 1]], events |-> {"POLLIN"}, revents |-> {}]]
    /\ pc' = "while"
    /\ UNCHANGED <<callbackVars, calls, sigactions, _should_run, signalled, ret, i,
                   pending, dispatched>>

\* Line 85: the flag is tested once per outer iteration.
While ==
    /\ pc = "while"
    /\ pc' = IF _should_run THEN "poll" ELSE "teardown"
    /\ UNCHANGED <<callbackVars, calls, sigactions, _should_run, signalled, desc, ret, i,
                   pending, dispatched>>

\* Line 86: the process enters poll() and blocks (timeout -1).
PollEnter ==
    /\ pc = "poll"
    /\ pc' = "in_poll"
    /\ UNCHANGED <<callbackVars, calls, sigactions, _should_run, signalled, desc, ret, i,
                   pending, dispatched>>

\* What poll() reports for descriptor k: the pending conditions it was asked for.
revents_of(k) == pending[pollables[owner(desc[k].fd) + 1]] \cap desc[k].events

\* Line 86: poll() returns the number of descriptors with a nonzero revents.
PollReturn ==
    /\ pc = "in_poll"
    /\ LET n == Cardinality({k \in 0..(len - 1) : revents_of(k) # {}})
       IN  /\ n >= 1
           /\ ret' = n
    /\ desc' = [k \in 0..(len - 1) |-> [desc[k] EXCEPT !.revents = revents_of(k)]]
    /\ dispatched' = <<>>
    /\ pc' = "poll_ret"
    /\ UNCHANGED <<callbackVars, calls, sigactions, _should_run, signalled, i, pending>>

\* Lines 87-89 and the initialisation of the for statement at line 91.
PollCheck ==
    /\ pc = "poll_ret"
    /\ IF ret < 1
       THEN pc' = "while" /\ i' = i
       ELSE pc' = "for" /\ i' = 0
    /\ UNCHANGED <<callbackVars, calls, sigactions, _should_run, signalled, desc, ret,
                   pending, dispatched>>

\* Line 91: the condition of the dispatch loop.
for_continues(r, k) == r # 0 /\ k < len

\* Lines 91-103: one iteration of the dispatch loop, with "i++, ret--".
\* handle_read consumes the source's pending input.
ForStep ==
    /\ pc = "for"
    /\ for_continues(ret, i)
    /\ LET p  == pollables[owner(desc[i].fd) + 1]
           rd == desc[i].revents \cap {"POLLIN", "POLLPRI"} # {}
           wr == "POLLOUT" \in desc[i].revents
       IN  /\ dispatched' = dispatched
                  \o (IF rd THEN <<[pollable |-> p, handler |-> "handle_read"]>> ELSE <<>>)
                  \o (IF wr THEN <<[pollable |-> p, handler |-> "handle_canwrite"]>> ELSE <<>>)
           /\ pending' = IF rd THEN [pending EXCEPT ![p] = @ \ {"POLLIN"}] ELSE pending
    /\ i' = i + 1
    /\ ret' = ret - 1
    /\ UNCHANGED <<callbackVars, calls, sigactions, _should_run, signalled, desc, pc>>

\* Line 91: the dispatch loop ends; back to line 85.
ForExit ==
    /\ pc = "for"
    /\ ~for_continues(ret, i)
    /\ pc' = "while"
    /\ UNCHANGED <<callbackVars, calls, sigactions, _should_run, signalled, desc, ret, i,
                   pending, dispatched>>

(***************************************************************************)
(* Environment: signals and readiness of the sources.                      *)
(***************************************************************************)
\* A signal is delivered to the process.  Lines 52-55 run for a signal whose
\* disposition is exit_signal_handler; a poll() in progress then fails with
\* EINTR.  A signal left at its default disposition terminates the process.
Deliver ==
    /\ pc \notin Exited
    /\ \E sig \in Signals :
         CASE sigactions[sig] = "exit_signal_handler" ->
                /\ _should_run' = FALSE
                /\ signalled' = TRUE
                /\ IF pc = "in_poll"
                   THEN pc' = "poll_ret" /\ ret' = -1
                   ELSE UNCHANGED <<pc, ret>>
           [] sigactions[sig] = "SIG_IGN" ->
                UNCHANGED <<pc, ret, _should_run, signalled>>
           [] sigactions[sig] = "SIG_DFL" ->
                /\ pc' = "killed"
                /\ UNCHANGED <<ret, _should_run, signalled>>
    /\ UNCHANGED <<callbackVars, calls, sigactions, desc, i, pending, dispatched>>

\* A condition becomes pending on a source's descriptor.
Ready ==
    /\ pc \in LoopPcs
    /\ \E p \in {"_camera", "_bmi", "_mavlink"}, c \in Conditions :
           /\ c \notin pending[p]
           /\ pending' = [pending EXCEPT ![p] = @ \cup {c}]
    /\ UNCHANGED <<callbackVars, pc, calls, sigactions, _should_run, signalled, desc,
                   ret, i, dispatched>>

\* Line 86: poll() fails for a reason other than a signal (ENOMEM) and
\* returns -1, leaving revents as they were.
PollFail ==
    /\ pc = "in_poll"
    /\ ret' = -1
    /\ pc' = "poll_ret"
    /\ UNCHANGED <<callbackVars, calls, sigactions, _should_run, signalled, desc, i,
                   pending, dispatched>>

(***************************************************************************)
(* Specifications.                                                         *)
(***************************************************************************)
\* The process at the entry of run(); desc, ret and i are not yet set and
\* are written before they are read.
InitRun ==
    /\ pc = "new_camera"
    /\ calls = <<>>
    /\ sigactions = [s \in Signals |-> "SIG_DFL"]
    /\ _should_run = FALSE
    /\ signalled = FALSE
    /\ desc = [k \in 0..(len - 1) |-> [fd |-> -1, events |-> {}, revents |-> {}]]
    /\ ret = 0
    /\ i = 0
    /\ pending = [p \in {"_camera", "_bmi", "_mavlink"} |-> {}]
    /\ dispatched = <<>>

Init == InitRun /\ InitCallback

\* The steps the process itself takes.
Program ==
    \/ NewCamera \/ CameraInit \/ NewMavlink \/ MavlinkInit \/ NewOpticalFlow
    \/ NewBmi \/ BmiInit \/ BmiStart
    \/ BmiError \/ BmiMemory \/ MavlinkInitError \/ MavlinkMemoryError \/ CameraInitError
    \/ signal_handlers_setup \/ SetShouldRun \/ DescSetup
    \/ While \/ PollEnter \/ PollReturn \/ PollCheck \/ ForStep \/ ForExit
    \/ Teardown

Next == Program \/ Deliver \/ Ready \/ PollFail

\* run() and loop() with their environment.
Spec == Init /\ [][Next]_vars

\* The process keeps executing while it has a step to take; nothing is
\* assumed of signals or of the sources.
FairSpec == Spec /\ WF_vars(Program)

\* The process keeps taking steps, and a poll() that is entered again and
\* again with a descriptor ready eventually reports it instead of failing.
FairDispatchSpec == Spec /\ WF_vars(Program) /\ SF_vars(PollReturn)

NextCallback == CameraFrame

\* The sequence of camera_callback invocations of one session.
SpecCallback == Init /\ [][NextCallback]_vars

(***************************************************************************)
(* Properties of camera_callback.                                          *)
(***************************************************************************)
NewFrame == Len(frames') = Len(frames) + 1

LastFrame == frames[Len(frames)]

LastSent == sent[Len(sent)]

raw_usec(k) == timeval_usec(frames[k].timestamp)

\* C4: a frame with flow quality >= 0 and a gyro timestamp that differs from
\* the last-seen one sends exactly one message, carrying the estimator's
\* quality, integration time and x/y and the inertial source's x/y/z.
C4_FreshFrameEmitsOneMessage ==
    [][ (/\ NewFrame
         /\ frames'[Len(frames')].flow.quality >= 0
         /\ frames'[Len(frames')].gyro.timespec # _gyro_last_timespec)
        => LET f == frames'[Len(frames')]
               m == sent'[Len(sent')]
           IN  /\ Len(sent') = Len(sent) + 1
               /\ SubSeq(sent', 1, Len(sent)) = sent
               /\ m.quality = f.flow.quality
               /\ m.integration_time_us = f.flow.dt_us
               /\ m.integrated_x = f.flow.flow_x_ang
               /\ m.integrated_y = f.flow.flow_y_ang
               /\ m.integrated_xgyro = f.gyro.data[1]
               /\ m.integrated_ygyro = f.gyro.data[2]
               /\ m.integrated_zgyro = f.gyro.data[3] ]_vars

C4_Witness ==
    /\ Len(frames) >= 2
    /\ Len(sent) = 1
    /\ frames[Len(frames) - 1].gyro.timespec # LastFrame.gyro.timespec
    /\ frames[Len(frames) - 1].flow.quality < 0
    /\ LastFrame.flow.quality >= 0
    /\ LastSent.quality = LastFrame.flow.quality
    /\ LastSent.integrated_xgyro = LastFrame.gyro.data[1]

\* C5: a frame whose gyro query returns the timestamp of the preceding
\* frame's gyro query sends no message, whatever the flow quality.
C5_DuplicateGyroSendsNothing ==
    [][ (/\ NewFrame
         /\ Len(frames) >= 1
         /\ frames'[Len(frames')].gyro.timespec = LastFrame.gyro.timespec)
        => sent' = sent ]_vars

C5_Witness ==
    /\ Len(frames) = 2
    /\ frames[1].gyro.timespec = frames[2].gyro.timespec
    /\ frames[1].flow.quality >= 0
    /\ frames[2].flow.quality >= 0
    /\ Len(sent) = 1

\* C6: a frame for which the estimator returns a negative quality sends no
\* message, whether its gyro timestamp is fresh or not.
C6_NegativeQualitySendsNothing ==
    [][ (NewFrame /\ frames'[Len(frames')].flow.quality < 0) => sent' = sent ]_vars

C6_Witness ==
    /\ Len(frames) = 2
    /\ frames[1].flow.quality >= 0
    /\ frames[2].flow.quality < 0
    /\ frames[1].gyro.timespec # frames[2].gyro.timespec
    /\ Len(sent) = 1

\* C7: the rebased timestamp handed to the estimator is 0 for the first
\* frame and (raw - first raw) for every later frame, also when the first
\* raw timestamp is 0.  Stated for the frames that are not older than the
\* first one, where the difference is defined.
C7_RebasedIsElapsedSinceFirst ==
    \A k \in 1..Len(frames) :
        wide_leq(raw_usec(1), raw_usec(k))
        => calcFlowCalls[k] = IF k = 1 THEN Zero ELSE wide_sub(raw_usec(k), raw_usec(1))

\* The scenario of C8: three frames at 1000000, 1033000, 1066000 us, flow
\* quality always 0, gyro timestamps strictly increasing.
timespec_lt(a, b) ==
    a.tv_sec < b.tv_sec \/ (a.tv_sec = b.tv_sec /\ a.tv_nsec < b.tv_nsec)

Scenario ==
    /\ Len(frames) = 3
    /\ raw_usec(1) = usec(1000000)
    /\ raw_usec(2) = usec(1033000)
    /\ raw_usec(3) = usec(1066000)
    /\ \A k \in 1..3 : frames[k].flow.quality = 0
    /\ \A k \in 1..2 : timespec_lt(frames[k].gyro.timespec, frames[k + 1].gyro.timespec)

AllEmitted == Len(sent) = Len(frames)

\* C8 as claimed: every emitted message carries the rebased timestamp of its
\* frame, and the scenario emits exactly 3 messages with time_usec
\* 0, 33000, 66000.
C8_TimeUsecIsRebased ==
    /\ AllEmitted => \A k \in 1..Len(sent) : sent[k].time_usec = calcFlowCalls[k]
    /\ Scenario => /\ Len(sent) = 3
                   /\ [k \in 1..3 |-> sent[k].time_usec]
                          = <<usec(0), usec(33000), usec(66000)>>

\* C8 amended: every emitted message carries the raw capture timestamp of
\* its frame in microseconds, and the scenario emits exactly 3 messages with
\* time_usec 1000000, 1033000, 1066000.
C8_TimeUsecIsRaw ==
    /\ AllEmitted => \A k \in 1..Len(sent) : sent[k].time_usec = raw_usec(k)
    /\ Scenario => /\ Len(sent) = 3
                   /\ [k \in 1..3 |-> sent[k].time_usec]
                          = <<usec(1000000), usec(1033000), usec(1066000)>>

C8_Witness ==
    /\ Scenario
    /\ Len(sent) = 3
    /\ calcFlowCalls = <<usec(0), usec(33000), usec(66000)>>
    /\ sent[3].time_usec = usec(1066000)

\* C9: for non-decreasing raw camera timestamps the rebased timestamps
\* handed to the estimator, computed in uint32_t, are non-decreasing.
C9_RebasedIsMonotone ==
    (\A k \in 1..(Len(frames) - 1) : wide_leq(raw_usec(k), raw_usec(k + 1)))
    => /\ \A k \in 1..(Len(frames) - 1) : wide_leq(calcFlowCalls[k], calcFlowCalls[k + 1])
       /\ Len(frames) >= 1 => _camera_prev_timestamp = calcFlowCalls[Len(frames)]

(***************************************************************************)
(* Properties of loop().                                                   *)
(***************************************************************************)
HandlerInvoked(p, h) ==
    \E n \in 1..Len(dispatched) : dispatched[n] = [pollable |-> p, handler |-> h]

DispatchDone == pc = "for" /\ ~for_continues(ret, i)

ReadReady(k) == desc[k].revents \cap {"POLLIN", "POLLPRI"} # {}

\* C1: when the dispatch loop that follows a wake of poll() with ret >= 1
\* ends, the read handler of every source that poll() reported read-ready
\* has been invoked, whichever subset of the sources was ready.
C1_EveryReadReadySourceIsHandled ==
    DispatchDone
    => \A k \in 0..(len - 1) :
           ReadReady(k) => HandlerInvoked(pollables[owner(desc[k].fd) + 1], "handle_read")

LoopReturned == pc \in {"teardown", "return_ok"}

\* C2: once a termination signal has been delivered to the installed
\* handler, loop() eventually returns, whether or not a source becomes ready.
C2_TerminationSignalEndsLoop == signalled ~> LoopReturned

\* C3: once the termination signal has been delivered, the next test of the
\* flag at line 85 ends the loop: no new wait, and so no new dispatch cycle,
\* is begun from it.
C3_NoNewCycleAfterSignal ==
    [][ (signalled /\ pc = "while") => pc' # "poll" ]_vars

(***************************************************************************)
(* Properties of run().                                                    *)
(***************************************************************************)
Names(cs) == [k \in 1..Len(cs) |-> cs[k].on]

Reverse(sq) == [k \in 1..Len(sq) |-> sq[Len(sq) + 1 - k]]

Constructed == Names(SelectSeq(calls, LAMBDA c : c.op = "new" /\ c.ok))

Released == Names(SelectSeq(calls, LAMBDA c : c.op = "delete"))

Count(op, on) == Len(SelectSeq(calls, LAMBDA c : c.op = op /\ c.on = on))

Made(op, on, ok) == \E k \in 1..Len(calls) : calls[k] = Call(op, on, ok)

StartupFailed == \E k \in 1..Len(calls) : ~calls[k].ok

\* C10: after a startup failure run() never enters loop(), and when it
\* returns failure it has released exactly the collaborators constructed so
\* far, once each and in reverse order of construction, and has shut the
\* camera down once if camera init succeeded and not at all otherwise; on
\* inertial init failure the flow estimator and the telemetry sink are
\* released once each and the camera is shut down once.
C10_StartupFailureUnwinds ==
    /\ StartupFailed => pc \notin LoopPcs \cup {"teardown", "return_ok"}
    /\ pc = "return_fail"
       => /\ StartupFailed
          /\ Released = Reverse(Constructed)
          /\ Count("shutdown", "_camera")
                 = IF Made("init", "_camera", TRUE) THEN 1 ELSE 0
          /\ Made("init", "_bmi", FALSE)
             => /\ Count("delete", "_optical_flow") = 1
                /\ Count("delete", "_mavlink") = 1
                /\ Count("shutdown", "_camera") = 1

C10_Witness ==
    /\ pc = "return_fail"
    /\ Made("init", "_bmi", FALSE)
    /\ Released = <<"_bmi", "_optical_flow", "_mavlink", "_camera">>
    /\ Count("shutdown", "_camera") = 1

\* The calls of a successful startup, in the order of lines 201-248.
StartupCalls ==
    <<Call("new", "_camera", TRUE), Call("init", "_camera", TRUE),
      Call("new", "_mavlink", TRUE), Call("init", "_mavlink", TRUE),
      Call("new", "_optical_flow", TRUE), Call("callback_set", "_camera", TRUE),
      Call("new", "_bmi", TRUE), Call("init", "_bmi", TRUE), Call("start", "_bmi", TRUE)>>

\* The calls of the teardown, the reverse of the startup order.
TeardownCalls ==
    <<Call("stop", "_bmi", TRUE), Call("delete", "_bmi", TRUE),
      Call("delete", "_optical_flow", TRUE),
      Call("delete", "_mavlink", TRUE),
      Call("shutdown", "_camera", TRUE), Call("delete", "_camera", TRUE)>>

\* The calls made so far, the optional calibration of the BMI160 left out.
CallsMade == SelectSeq(calls, LAMBDA c : c.op # "calibrate")

\* C11: on a successful run the collaborators are initialised in the order
\* camera, telemetry transport, flow estimator, inertial source; loop() is
\* entered only after all four succeeded; and when run() returns 0 they have
\* been torn down in the reverse order (inertial source stopped and
\* released, flow estimator released, transport released, camera shut down
\* and released), each exactly once.
C11_SuccessfulRunOrder ==
    /\ pc \in LoopPcs \cup {"teardown"} => CallsMade = StartupCalls
    /\ pc = "return_ok" => CallsMade = StartupCalls \o TeardownCalls

C11_Witness ==
    /\ pc = "return_ok"
    /\ Released = <<"_bmi", "_optical_flow", "_mavlink", "_camera">>
    /\ Made("calibrate", "_bmi", TRUE)
    /\ signalled

\* C12: loop() returns only after a termination signal has cleared
\* _should_run; a wait that returns less than 1 dispatches no handler and is
\* retried; SIGPIPE is never given the handler that clears the flag; and a
\* step of the dispatch loop, whatever its handlers did, neither clears the
\* flag nor leaves the loop.
C12_OnlyTerminationSignalEndsLoop ==
    [][ /\ (pc # "teardown" /\ pc' = "teardown")
           => (pc = "while" /\ signalled /\ ~_should_run)
        /\ (pc = "poll_ret" /\ ret < 1 /\ pc' # pc)
           => (pc' = "while" /\ dispatched' = dispatched)
        /\ (pc = "while" /\ _should_run /\ pc' # pc) => pc' = "poll"
        /\ sigactions'["SIGPIPE"] # "exit_signal_handler"
        /\ (_should_run /\ ~_should_run')
           => (signalled' /\ pc' \in {pc, "poll_ret"} /\ dispatched' = dispatched)
        /\ (pc = "for" /\ pc' # pc) => (pc' = "while" /\ ~for_continues(ret, i))
      ]_vars

C12_Witness ==
    /\ pc = "in_poll"
    /\ ret = -1
    /\ _should_run
    /\ ~signalled
    /\ sigactions["SIGPIPE"] = "SIG_IGN"

\* The fixed order of the sources: camera, inertial sensor, telemetry transport.
Rank == ("_camera" :> 0) @@ ("_bmi" :> 1) @@ ("_mavlink" :> 2)

\* C13: within one dispatch cycle the handlers run in the order camera,
\* inertial sensor, telemetry transport: no handler of a later source runs
\* before a handler of an earlier one, and no handler of a source runs twice.
C13_DispatchFollowsDescriptorOrder ==
    \A m, n \in 1..Len(dispatched) :
        m < n => /\ Rank[dispatched[m].pollable] <= Rank[dispatched[n].pollable]
                 /\ dispatched[m].handler = dispatched[n].handler
                    => Rank[dispatched[m].pollable] < Rank[dispatched[n].pollable]

C13_Witness ==
    /\ DispatchDone
    /\ dispatched = <<[pollable |-> "_camera", handler |-> "handle_read"],
                      [pollable |-> "_bmi", handler |-> "handle_read"],
                      [pollable |-> "_mavlink", handler |-> "handle_read"]>>

(***************************************************************************)
(* Bookkeeping of camera_callback.                                         *)
(***************************************************************************)
\* C14: every invocation of camera_callback hands the estimator the frame's
\* rebased timestamp exactly once and stores it as the previous-frame
\* timestamp, whether the frame is emitted or suppressed by either check.
C14_PrevTimestampAlwaysUpdated ==
    [][ NewFrame
        => LET f == frames'[Len(frames')]
               t == rebase(_camera_initial_timestamp,
                           to_uint32(timeval_usec(f.timestamp))).img_time_us
           IN  /\ calcFlowCalls' = Append(calcFlowCalls, t)
               /\ _camera_prev_timestamp' = t ]_vars

C14_Witness ==
    /\ Len(frames) = 3
    /\ Len(sent) = 1
    /\ frames[2].gyro.timespec = frames[1].gyro.timespec
    /\ frames[3].gyro.timespec # frames[2].gyro.timespec
    /\ frames[3].flow.quality < 0
    /\ calcFlowCalls[2] # calcFlowCalls[3]
    /\ _camera_prev_timestamp = calcFlowCalls[3]
    /\ _camera_prev_timestamp # Zero

\* The gyro timestamps of a sequence of frames.
GyroTimes(fs) == [k \in 1..Len(fs) |-> fs[k].gyro.timespec]

\* The last-seen gyro timestamp as the liveness check alone would leave it
\* after the gyro timestamps ts, whatever the flow qualities.
RECURSIVE LastSeenOf(_)
LastSeenOf(ts) ==
    IF ts = <<>>
    THEN [tv_sec |-> 0, tv_nsec |-> 0]
    ELSE LET before == LastSeenOf(SubSeq(ts, 1, Len(ts) - 1))
         IN  IF before = ts[Len(ts)] THEN before ELSE ts[Len(ts)]

\* C15: the last-seen gyro timestamp after each frame, and whether the
\* liveness check passes on it, are determined by the sequence of gyro
\* timestamps alone, so two runs that differ only in flow quality agree on
\* them; and a frame is emitted exactly when it passes the liveness check
\* and its own quality is not negative, whatever was suppressed before.
C15_ChecksAreIndependent ==
    [][ NewFrame
        => LET f     == frames'[Len(frames')]
               fresh == LastSeenOf(GyroTimes(frames)) # f.gyro.timespec
           IN  /\ _gyro_last_timespec' = LastSeenOf(GyroTimes(frames'))
               /\ (_gyro_last_timespec' # _gyro_last_timespec) = fresh
               /\ IF fresh /\ f.flow.quality >= 0
                  THEN Len(sent') = Len(sent) + 1
                  ELSE sent' = sent ]_vars

C15_Witness ==
    /\ Len(frames) = 3
    /\ frames[1].flow.quality < 0
    /\ frames[2].gyro.timespec = frames[1].gyro.timespec
    /\ frames[2].flow.quality >= 0
    /\ frames[3].gyro.timespec # frames[2].gyro.timespec
    /\ frames[3].flow.quality >= 0
    /\ Len(sent) = 1
    /\ _gyro_last_timespec = LastSeenOf(GyroTimes(frames))

\* C17: after every invocation of camera_callback the last-seen gyro
\* timestamp is the one the inertial source returned in that invocation; so
\* a frame that repeats the gyro timestamp of a negative-quality frame
\* emits nothing, even with quality >= 0.
C17_GyroSampleAlwaysConsumed ==
    [][ NewFrame
        => LET f == frames'[Len(frames')]
           IN  /\ _gyro_last_timespec' = f.gyro.timespec
               /\ (/\ Len(frames) >= 1
                   /\ LastFrame.flow.quality < 0
                   /\ f.gyro.timespec = LastFrame.gyro.timespec
                   /\ f.flow.quality >= 0)
                  => sent' = sent ]_vars

C17_Witness ==
    /\ Len(frames) = 2
    /\ frames[1].flow.quality < 0
    /\ frames[2].flow.quality >= 0
    /\ frames[2].gyro.timespec = frames[1].gyro.timespec
    /\ _gyro_last_timespec = frames[2].gyro.timespec
    /\ sent = <<>>

(***************************************************************************)
(* Interest of the descriptors.                                            *)
(***************************************************************************)
\* C18: once loop() has set its descriptors up, each is registered for
\* read-readiness only and stays so, poll() reports no write-readiness, and
\* the loop invokes no handle_canwrite: only read handlers are dispatched.
C18_OnlyReadHandlersDispatched ==
    /\ pc \in (LoopPcs \ {"signal_handlers_setup", "set_should_run", "desc_setup"})
                  \cup {"teardown", "return_ok"}
       => \A k \in 0..(len - 1) :
              /\ desc[k].events = {"POLLIN"}
              /\ desc[k].fd = _fd[pollables[k + 1]]
              /\ "POLLOUT" \notin desc[k].revents
    /\ \A m \in 1..Len(dispatched) : dispatched[m].handler = "handle_read"

C18_Witness ==
    /\ DispatchDone
    /\ "POLLOUT" \in pending["_mavlink"]
    /\ "POLLOUT" \in pending["_camera"]
    /\ HandlerInvoked("_mavlink", "handle_read")
    /\ ~HandlerInvoked("_mavlink", "handle_canwrite")

(***************************************************************************)
(* Progress of dispatch.                                                   *)
(***************************************************************************)
\* C16: while loop() keeps running, a source that has become read-ready and
\* stays so until handled eventually has its read handler invoked (which
\* consumes the input), even if no other source ever becomes ready.
C16_ReadySourceEventuallyHandled ==
    \A p \in {"_camera", "_bmi", "_mavlink"} :
        (pc \in LoopPcs /\ "POLLIN" \in pending[p])
            ~> ("POLLIN" \notin pending[p] \/ pc \notin LoopPcs)

============================================================================
